---- MODULE Spec2Model ----
(***************************************************************************)
(* A model of the Spotify recommender's request handlers                   *)
(* (recommender/views.py) over its five tables (recommender/models.py).    *)
(*                                                                         *)
(* Every handler is one atomic action: the HTTP request, every ORM call it *)
(* makes and the response it returns.  What the outside world supplies     *)
(* (query parameters, the OAuth provider's answers, the pages of the       *)
(* catalogue API) is an input of the action, drawn from small sets.        *)
(* The variable resp holds the response of the latest request together     *)
(* with the external calls the request made.                               *)
(***************************************************************************)
EXTENDS Integers, Sequences, FiniteSets, Bags, TLC

VARIABLES users, tokens, profiles, sessions, now, tracks, history, recs, resp,
          running

vars == <<users, tokens, profiles, sessions, now, tracks, history, recs, resp,
          running>>

(***************************************************************************)
(* Bounds and input domains                                                *)
(***************************************************************************)
MaxTime == 1          \* the clock runs over 0..MaxTime
MaxPage == 2          \* items in a recently-played page
MaxRecs == 3          \* tracks in a recommendation response

None == "None"        \* Python's None, and an absent query parameter or key

ExternalIds == {"alice", "bob"}
AccessTokens == {"a1", "a2"}
RefreshTokens == {"r1", "r2"}
\* request.GET.get('code') / .get('error'): absent, empty, or a value
Codes == {None, "", "c1"}
Errors == {None, "", "access_denied"}
\* spotify_user['display_name']: null, blank, or a name
DisplayNames == {None, " ", "Al B"}
\* expires_in of a granted token, in ticks of the clock
Lifetimes == {1}

TrackIds == {"t1", "t2"}
\* the metadata the catalogue API reports for a track (its name stands for
\* every field of the defaults: name, artist, album, urls, duration)
Names == {"n1", "n2"}
\* item['played_at'] as the API sends it
PlayedAtStrings == {"T1Z", "T2Z", "garbage"}
Items == [id : TrackIds, name : Names, played_at : PlayedAtStrings]

\* all sequences over S of length at most n
SeqsUpTo(S, n) == UNION {[1..k -> S] : k \in 0..n}

\* one entry of sp.audio_features(...): the features of a track, or null
NoFeatures ==
  [present |-> FALSE, danceability |-> 0, energy |-> 0, valence |-> 0, tempo |-> 0]
SomeFeatures ==
  [present |-> TRUE, danceability |-> 50, energy |-> 60, valence |-> 70, tempo |-> 120]

\* the token endpoint's answer to a code exchange
CodeGrants ==
  [access_token : AccessTokens, refresh_token : RefreshTokens,
   expires_in : Lifetimes]

\* its answer to a refresh: the refresh token is present only when rotated
RefreshGrants ==
  [access_token : AccessTokens, refresh_token : RefreshTokens \cup {"absent"},
   expires_in : Lifetimes]

\* the answer used where the handler never asks the token endpoint
NoExchange == [access_token |-> None, refresh_token |-> "absent", expires_in |-> 0]

(***************************************************************************)
(* The response record                                                     *)
(***************************************************************************)
\* the targets of a request that never reached sp.recommendations(...)
NoTargets ==
  [danceability |-> [num |-> 0, den |-> 0], energy |-> [num |-> 0, den |-> 0],
   valence |-> [num |-> 0, den |-> 0], tempo |-> [num |-> 0, den |-> 0]]

Response(op, user, kind, status, body) ==
  [op |-> op, user |-> user, kind |-> kind, status |-> status, body |-> body,
   request |-> [code |-> None, error |-> None],
   calls |-> <<>>, client |-> None, exchange |-> NoExchange,
   tracks_created |-> 0, history_entries_created |-> 0,
   targets |-> NoTargets, recommended |-> <<>>, replaced |-> FALSE,
   rows |-> <<>>, features |-> <<>>]

(***************************************************************************)
(* ORM helpers                                                             *)
(***************************************************************************)
UsersNamed(us, name) == {u \in us : u.username = name}

\* User.objects.get_or_create(username=username, defaults=...)
UserGetOrCreateAlways(us, name) ==
  [rows |-> us \cup {[id |-> Cardinality(us) + 1, username |-> name]},
   id |-> Cardinality(us) + 1, created |-> TRUE]

UserGetOrCreate(us, name) ==
  IF UsersNamed(us, name) # {}
  THEN [rows |-> us, id |-> (CHOOSE u \in UsersNamed(us, name) : TRUE).id,
        created |-> FALSE]
  ELSE [rows |-> us \cup {[id |-> Cardinality(us) + 1, username |-> name]},
        id |-> Cardinality(us) + 1, created |-> TRUE]

TokensOf(tk, uid) == {t \in tk : t.user = uid}

\* SpotifyToken.objects.update_or_create(user=user, defaults=...)
TokenUpdateOrCreate(tk, uid, access, refresh, expires, type) ==
  (tk \ TokensOf(tk, uid)) \cup
    {[user |-> uid, access_token |-> access, refresh_token |-> refresh,
      expires_at |-> expires, token_type |-> type]}

ProfilesOf(pf, uid) == {p \in pf : p.user = uid}

\* SpotifyProfile.objects.update_or_create(user=user, defaults=...)
ProfileUpdateOrCreate(pf, uid, sid, name) ==
  (pf \ ProfilesOf(pf, uid)) \cup
    {[user |-> uid, spotify_id |-> sid, display_name |-> name]}

\* dict.get(key, default): the default only when the key is absent
GetOr(v, default) == IF v = "absent" THEN default ELSE v

(***************************************************************************)
(* get_user_spotify_client(user)                                           *)
(*   tk: the token table, uid: the user, t: timezone.now(),                *)
(*   rf: the provider's answer to a refresh, ok: whether it answers        *)
(* Result: client (the access token the client is built from, or None),    *)
(* the token table afterwards, the external calls made, raised.            *)
(***************************************************************************)
\* timezone.now() >= token_info.expires_at
\* an expiry test that refreshes one time unit early
ExpiredEarly(row, t) == t + 1 >= row.expires_at

ExpiredStrictlyAfter(row, t) == t > row.expires_at

Expired(row, t) == t >= row.expires_at

RefreshedRow(row, t, rf) ==
  [row EXCEPT !.access_token = rf.access_token,
              !.expires_at = t + rf.expires_in,
              !.refresh_token = IF rf.refresh_token # "absent"
                                THEN rf.refresh_token ELSE row.refresh_token]

\* a client built without a stored credential
GetClientAnonymous(tk, uid, t, rf, ok) ==
  [client |-> "a1", tokens |-> tk, calls |-> <<>>, raised |-> FALSE,
   exchange |-> NoExchange]

GetClient(tk, uid, t, rf, ok) ==
  IF TokensOf(tk, uid) = {}
  THEN [client |-> None, tokens |-> tk, calls |-> <<>>, raised |-> FALSE,
        exchange |-> NoExchange]
  ELSE LET row == CHOOSE r \in TokensOf(tk, uid) : TRUE IN
       IF Expired(row, t)
       THEN IF ok
            THEN [client |-> RefreshedRow(row, t, rf).access_token,
                  tokens |-> (tk \ {row}) \cup {RefreshedRow(row, t, rf)},
                  calls |-> <<"refresh_access_token">>, raised |-> FALSE,
                  exchange |-> rf]
            ELSE [client |-> None, tokens |-> tk,
                  calls |-> <<"refresh_access_token">>, raised |-> TRUE,
                  exchange |-> NoExchange]
       ELSE [client |-> row.access_token, tokens |-> tk, calls |-> <<>>,
             raised |-> FALSE, exchange |-> NoExchange]

\* the refresh answers worth drawing for a user: one placeholder when the
\* handler will not ask
RefreshInputs(uid) ==
  IF \E r \in TokensOf(tokens, uid) : Expired(r, now)
  THEN RefreshGrants \X BOOLEAN
  ELSE {<<NoExchange, TRUE>>}

(***************************************************************************)
(* State after construction: empty tables, nobody logged in                *)
(***************************************************************************)
NoRequest == Response("none", 0, "none", 0, None)

\* the requests being handled step by step: what each one holds in memory
Requests == {1, 2}

NoToken ==
  [user |-> 0, access_token |-> None, refresh_token |-> None, expires_at |-> 0,
   token_type |-> None]

NotRunning ==
  [op |-> "none", pc |-> "idle", user |-> 0, list |-> <<>>, k |-> 0,
   read |-> NoToken, at |-> 0, row |-> NoToken, grant |-> NoExchange]

NoneRunning == [p \in Requests |-> NotRunning]

Init ==
  /\ users = {}
  /\ tokens = {}
  /\ profiles = {}
  /\ sessions = {}
  /\ now = 0
  /\ tracks = {}
  /\ history = EmptyBag
  /\ recs = {}
  /\ resp = NoRequest
  /\ running = NoneRunning

(***************************************************************************)
(* spotify_callback(request)                                               *)
(*   code, error: the query parameters; api: how the provider answers      *)
(*   ("ok", "exchange_fails", "profile_fails"); tk: the token bundle;      *)
(*   sid, dn: the id and display_name of the profile the provider returns  *)
(***************************************************************************)
\* Python truthiness of an optional string
Truthy(s) == s \notin {None, ""}

CallbackCalls(api) ==
  IF api = "exchange_fails" THEN <<"get_access_token">>
  ELSE <<"get_access_token", "current_user">>

\* the two early returns: which way the handler goes for its parameters
CallbackBranchCodeFirst(code, error) ==
  IF Truthy(code) THEN "exchange" ELSE IF Truthy(error) THEN "error" ELSE "no_code"

CallbackBranch(code, error) ==
  IF Truthy(error) THEN "error" ELSE IF ~Truthy(code) THEN "no_code" ELSE "exchange"

Callback(code, error, api, tk, sid, dn) ==
  LET got == UserGetOrCreate(users, sid)
      saved == TokenUpdateOrCreate(tokens, got.id, tk.access_token,
                                   GetOr(tk.refresh_token, ""),
                                   now + tk.expires_in, "Bearer")
      req == [code |-> code, error |-> error]
      page == [Response("callback", 0, "page", 200, error) EXCEPT !.request = req]
      base == [page EXCEPT !.kind = "exception", !.status = 500, !.body = None]
  IN
  /\ UNCHANGED <<now, tracks, history, recs, running>>
  /\ IF CallbackBranch(code, error) = "error"
     THEN /\ resp' = page
          /\ UNCHANGED <<users, tokens, profiles, sessions>>
     ELSE IF CallbackBranch(code, error) = "no_code"
     THEN /\ resp' = [page EXCEPT !.body = "No authorization code provided"]
          /\ UNCHANGED <<users, tokens, profiles, sessions>>
     ELSE IF api # "ok"
     THEN \* get_access_token or current_user raises: nothing is caught
          /\ resp' = [base EXCEPT !.calls = CallbackCalls(api)]
          /\ UNCHANGED <<users, tokens, profiles, sessions>>
     ELSE IF dn = " "
     THEN \* ' '.split()[0]: IndexError while the defaults are built
          /\ resp' = [base EXCEPT !.calls = CallbackCalls(api), !.body = sid]
          /\ UNCHANGED <<users, tokens, profiles, sessions>>
     ELSE IF dn = None
     THEN \* display_name=None violates NOT NULL at the profile upsert,
          \* after the user and the token were saved
          /\ users' = got.rows
          /\ tokens' = saved
          /\ resp' = [base EXCEPT !.calls = CallbackCalls(api), !.body = sid,
                                  !.user = got.id, !.exchange = tk]
          /\ UNCHANGED <<profiles, sessions>>
     ELSE /\ users' = got.rows
          /\ tokens' = saved
          /\ profiles' = ProfileUpdateOrCreate(profiles, got.id, sid, GetOr(dn, ""))
          /\ sessions' = sessions \cup {got.id}
          /\ resp' = [base EXCEPT !.kind = "redirect", !.status = 302,
                                  !.body = sid, !.user = got.id,
                                  !.calls = CallbackCalls(api), !.exchange = tk]

\* every request the callback URL can receive, the provider's answers drawn
\* only where the handler asks for them
CallbackRequest ==
  \E code \in Codes, error \in Errors :
    IF Truthy(error) \/ ~Truthy(code)
    THEN Callback(code, error, "ok", NoExchange, "alice", None)
    ELSE \/ \E api \in {"exchange_fails", "profile_fails"} :
              Callback(code, error, api, NoExchange, "alice", None)
         \/ \E tk \in CodeGrants, sid \in ExternalIds, dn \in DisplayNames :
              Callback(code, error, "ok", tk, sid, dn)

(***************************************************************************)
(* The environment: time passes; a superuser removes a token row through   *)
(* the admin site                                                          *)
(***************************************************************************)
Tick ==
  /\ now < MaxTime
  /\ now' = now + 1
  /\ resp' = NoRequest
  /\ UNCHANGED <<users, tokens, profiles, sessions, tracks, history, recs, running>>

AdminDeleteToken ==
  \E t \in tokens :
    /\ tokens' = tokens \ {t}
    /\ resp' = NoRequest
    /\ UNCHANGED <<users, profiles, sessions, now, tracks, history, recs, running>>

(***************************************************************************)
(* fetch_listening_history(request)                                        *)
(***************************************************************************)
TracksWithId(trk, id) == {t \in trk : t.spotify_id = id}

\* Track.objects.update_or_create(spotify_id=..., defaults={...})
TrackUpdateOrCreate(trk, id, name) ==
  [rows |-> (trk \ TracksWithId(trk, id)) \cup {[spotify_id |-> id, name |-> name]},
   created |-> TracksWithId(trk, id) = {}]

\* Track.objects.get_or_create(spotify_id=..., defaults={...})
TrackGetOrCreate(trk, id, name) ==
  IF TracksWithId(trk, id) # {}
  THEN [rows |-> trk, created |-> FALSE]
  ELSE [rows |-> trk \cup {[spotify_id |-> id, name |-> name]}, created |-> TRUE]

\* parse_datetime(item['played_at'].replace('Z', '+00:00')): the timestamp,
\* or nothing (None) for a string that is no timestamp
ParseDatetime(str) ==
  IF str = "T1Z" THEN {1} ELSE IF str = "T2Z" THEN {2} ELSE {}

HistoryRow(uid, id, at) == [user |-> uid, track |-> id, played_at |-> at]

\* ListeningHistory.objects.create(...) under unique_together
\* (user, track, played_at): a second row with the same key raises
HistoryCreate(hist, row) ==
  IF BagIn(row, hist)
  THEN [rows |-> hist, created |-> FALSE, raised |-> TRUE]
  ELSE [rows |-> hist (+) SetToBag({row}), created |-> TRUE, raised |-> FALSE]

\* ListeningHistory.objects.get_or_create(user=, track=, played_at=)
HistoryGetOrCreate(hist, row) ==
  IF BagIn(row, hist)
  THEN [rows |-> hist, created |-> FALSE, raised |-> FALSE]
  ELSE [rows |-> hist (+) SetToBag({row}), created |-> TRUE, raised |-> FALSE]

\* if created: count += 1
CountedAlways(n, created) == n + 1

Counted(n, created) == IF created THEN n + 1 ELSE n

\* one iteration of the loop over results['items']
\*   st: [tracks, history, tracks_created, history_created, raised]
IngestItem(st, uid, item) ==
  LET tr == TrackGetOrCreate(st.tracks, item.id, item.name)
      tc == Counted(st.tracks_created, tr.created)
      at == ParseDatetime(item.played_at)
  IN
  IF at = {}
  THEN \* played_at=None: the insert violates NOT NULL and raises
       [st EXCEPT !.tracks = tr.rows, !.tracks_created = tc, !.raised = TRUE]
  ELSE LET h == HistoryGetOrCreate(st.history,
                                   HistoryRow(uid, item.id, CHOOSE x \in at : TRUE))
       IN [tracks |-> tr.rows, history |-> h.rows, tracks_created |-> tc,
           history_created |-> Counted(st.history_created, h.created),
           raised |-> h.raised]

\* the loop: items in order, stopping at the first one that raises
RECURSIVE IngestFrom(_, _, _, _)
IngestFrom(st, uid, page, k) ==
  IF k > Len(page) \/ st.raised THEN st
  ELSE IngestFrom(IngestItem(st, uid, page[k]), uid, page, k + 1)

\* the loop inside a transaction that is rolled back when an item raises
IngestPageAtomic(trk, hist, uid, page) ==
  LET r == IngestFrom([tracks |-> trk, history |-> hist, tracks_created |-> 0,
                       history_created |-> 0, raised |-> FALSE], uid, page, 1)
  IN IF r.raised THEN [r EXCEPT !.tracks = trk, !.history = hist] ELSE r

IngestPage(trk, hist, uid, page) ==
  IngestFrom([tracks |-> trk, history |-> hist, tracks_created |-> 0,
              history_created |-> 0, raised |-> FALSE], uid, page, 1)

\* the handler as a function of the tables, the user and what the outside
\* world answers: rf/rok the refresh, apiOk/page the recently-played call
FetchOutcome(tk, trk, hist, uid, t, rf, rok, apiOk, page) ==
  LET gc == GetClient(tk, uid, t, rf, rok)
      r == IngestPage(trk, hist, uid, page)
      base == [Response("fetch", uid, "json", 500, "error")
                 EXCEPT !.client = gc.client, !.exchange = gc.exchange,
                        !.calls = gc.calls]
      called == [base EXCEPT
                   !.calls = Append(gc.calls, "current_user_recently_played")]
  IN
  IF gc.raised
  THEN [tokens |-> gc.tokens, tracks |-> trk, history |-> hist,
        resp |-> [base EXCEPT !.kind = "exception"]]
  ELSE IF gc.client = None
  THEN [tokens |-> gc.tokens, tracks |-> trk, history |-> hist,
        resp |-> [base EXCEPT !.status = 401,
                              !.body = "Not authenticated with Spotify"]]
  ELSE IF ~apiOk
  THEN [tokens |-> gc.tokens, tracks |-> trk, history |-> hist, resp |-> called]
  ELSE IF r.raised
  THEN [tokens |-> gc.tokens, tracks |-> r.tracks, history |-> r.history,
        resp |-> called]
  ELSE [tokens |-> gc.tokens, tracks |-> r.tracks, history |-> r.history,
        resp |-> [called EXCEPT !.status = 200, !.body = "success",
                                !.tracks_created = r.tracks_created,
                                !.history_entries_created = r.history_created]]

Fetch(uid, rf, rok, apiOk, page) ==
  LET out == FetchOutcome(tokens, tracks, history, uid, now, rf, rok, apiOk, page)
  IN
  /\ uid \in sessions    \* @login_required
  /\ tokens' = out.tokens
  /\ tracks' = out.tracks
  /\ history' = out.history
  /\ resp' = out.resp
  /\ UNCHANGED <<users, profiles, sessions, now, recs, running>>

\* POST /fetch-history/ where the API serves pages drawn from the set pages
FetchRequest(pages) ==
  \E uid \in sessions : \E rin \in RefreshInputs(uid), apiOk \in BOOLEAN :
    IF apiOk
    THEN \E page \in pages : Fetch(uid, rin[1], rin[2], TRUE, page)
    ELSE Fetch(uid, rin[1], rin[2], FALSE, <<>>)

(***************************************************************************)
(* generate_recommendations(request)                                       *)
(***************************************************************************)
SeedCount == 5       \* top_tracks['items'][:5]
DefaultScore == 8    \* score=0.8, in tenths

RecsOf(rc, uid) == {r \in rc : r.user = uid}

\* Recommendation.objects.create(...) with no uniqueness constraint
RecCreateUnchecked(rc, row) == [rows |-> rc \cup {row}, raised |-> FALSE]

\* Recommendation.objects.create(...) under unique_together (user, track)
RecCreate(rc, row) ==
  IF \E r \in rc : r.user = row.user /\ r.track = row.track
  THEN [rows |-> rc, raised |-> TRUE]
  ELSE [rows |-> rc \cup {row}, raised |-> FALSE]

\* a delete that removes nothing
RecDeleteNone(rc, uid) == rc

\* Recommendation.objects.filter(user=request.user).delete()
RecDelete(rc, uid) == rc \ RecsOf(rc, uid)

\* one iteration of the loop over recommendations['tracks']
\*   st: [tracks, recs, raised]
StoreRecommendation(st, uid, t, data) ==
  LET tr == TrackGetOrCreate(st.tracks, data.id, data.name)
      rc == RecCreate(st.recs, [user |-> uid, track |-> data.id,
                                score |-> DefaultScore, created_at |-> t])
  IN [tracks |-> tr.rows, recs |-> rc.rows, raised |-> rc.raised]

RECURSIVE StoreFrom(_, _, _, _, _)
StoreFrom(st, uid, t, list, k) ==
  IF k > Len(list) \/ st.raised THEN st
  ELSE StoreFrom(StoreRecommendation(st, uid, t, list[k]), uid, t, list, k + 1)

\* seed_tracks = [track['id'] for track in top_tracks['items'][:5]]
Seeds(top) == SubSeq(top, 1, IF Len(top) < SeedCount THEN Len(top) ELSE SeedCount)

RECURSIVE SumOver(_, _, _)
\* sum(f[name] for f in audio_features if f), from entry k on
SumOver(feats, name, k) ==
  IF k > Len(feats) THEN 0
  ELSE (IF feats[k].present THEN feats[k][name] ELSE 0) + SumOver(feats, name, k + 1)

\* avg_features: each mean as the fraction sum / len(audio_features)
AvgFeatures(feats) ==
  [danceability |-> [num |-> SumOver(feats, "danceability", 1), den |-> Len(feats)],
   energy |-> [num |-> SumOver(feats, "energy", 1), den |-> Len(feats)],
   valence |-> [num |-> SumOver(feats, "valence", 1), den |-> Len(feats)],
   tempo |-> [num |-> SumOver(feats, "tempo", 1), den |-> Len(feats)]]

\* the external calls made before the store is touched, up to the one that
\* raises ("none": all answer)
GenerateCalls(fails) ==
  IF fails = "top_tracks" THEN <<"current_user_top_tracks">>
  ELSE IF fails \in {"audio_features", "division"}
  THEN <<"current_user_top_tracks", "audio_features">>
  ELSE <<"current_user_top_tracks", "audio_features", "recommendations">>

\* the handler as a function of the tables, the user and what the outside
\* world answers: rf/rok the refresh, top the top tracks, feats the audio
\* features, list the recommended tracks, fails the API call that raises
GenerateOutcome(tk, trk, rc, uid, t, rf, rok, fails, top, feats, list) ==
  LET gc == GetClient(tk, uid, t, rf, rok)
      stops == IF fails \in {"none", "recommendations"} /\ Len(feats) = 0
               THEN "division" ELSE fails
      st == StoreFrom([tracks |-> trk, recs |-> RecDelete(rc, uid),
                       raised |-> FALSE], uid, t, list, 1)
      base == [Response("generate", uid, "page", 200, "error")
                 EXCEPT !.client = gc.client, !.exchange = gc.exchange,
                        !.calls = gc.calls]
      called == [base EXCEPT
                   !.calls = gc.calls \o GenerateCalls(stops),
                   !.features = IF stops \in {"top_tracks", "audio_features"}
                                THEN <<>> ELSE feats,
                   !.targets = IF stops \in {"none", "recommendations"}
                               THEN AvgFeatures(feats) ELSE NoTargets]
  IN
  IF gc.raised
  THEN [tokens |-> gc.tokens, tracks |-> trk, recs |-> rc,
        resp |-> [base EXCEPT !.kind = "exception", !.status = 500]]
  ELSE IF gc.client = None
  THEN [tokens |-> gc.tokens, tracks |-> trk, recs |-> rc,
        resp |-> [base EXCEPT !.kind = "json", !.status = 401,
                              !.body = "Not authenticated with Spotify"]]
  ELSE IF stops # "none"
  THEN [tokens |-> gc.tokens, tracks |-> trk, recs |-> rc, resp |-> called]
  ELSE [tokens |-> gc.tokens, tracks |-> st.tracks, recs |-> st.recs,
        resp |-> [called EXCEPT
                    !.recommended = list,
                    !.replaced = TRUE,
                    !.body = IF st.raised THEN "error" ELSE "recommendations",
                    !.kind = IF st.raised THEN "page" ELSE "redirect",
                    !.status = IF st.raised THEN 200 ELSE 302]]

Generate(uid, rf, rok, fails, top, feats, list) ==
  LET out == GenerateOutcome(tokens, tracks, recs, uid, now, rf, rok, fails,
                             top, feats, list)
  IN
  /\ uid \in sessions    \* @login_required
  /\ tokens' = out.tokens
  /\ tracks' = out.tracks
  /\ recs' = out.recs
  /\ resp' = out.resp
  /\ UNCHANGED <<users, profiles, sessions, now, history, running>>

\* the audio-features answers for a seed list: one entry per seed
FeatureAnswers(seeds) == [1..Len(seeds) -> {NoFeatures, SomeFeatures}]

\* GET /generate-recommendations/ where the API reports top tracks from
\* tops and recommendation lists from lists
GenerateRequest(tops, lists) ==
  \E uid \in sessions : \E rin \in RefreshInputs(uid) :
    \E top \in tops : \E feats \in FeatureAnswers(Seeds(top)) :
      \/ \E fails \in {"top_tracks", "audio_features", "recommendations"} :
           Generate(uid, rin[1], rin[2], fails, top, feats, <<>>)
      \/ \E list \in lists :
           Generate(uid, rin[1], rin[2], "none", top, feats, list)

(***************************************************************************)
(* The token lifecycle: logins, the clock, token removal, and requests     *)
(* whose users have played nothing yet (the API serves empty pages)        *)
(***************************************************************************)
NextAuth ==
  \/ CallbackRequest
  \/ Tick
  \/ AdminDeleteToken
  \/ FetchRequest({<<>>})

SpecAuth == Init /\ [][NextAuth]_vars

(***************************************************************************)
(* The ingestion pipeline: one user logs in, may lose the token row, and   *)
(* fetches pages of up to MaxPage well-formed play events                  *)
(***************************************************************************)
FirstGrant == [access_token |-> "a1", refresh_token |-> "r1", expires_in |-> 1]

\* a callback that succeeds, for one of the external ids in ids
LoginRequest(ids) ==
  \E sid \in ids : Callback("c1", None, "ok", FirstGrant, sid, "Al B")

ValidItems == {i \in Items : ParseDatetime(i.played_at) # {}}

IngestPages == SeqsUpTo(ValidItems, MaxPage)

NextIngest ==
  \/ LoginRequest({"alice"})
  \/ AdminDeleteToken
  \/ FetchRequest(IngestPages)

SpecIngest == Init /\ [][NextIngest]_vars

(***************************************************************************)
(* Ingestion of pages that may hold a play event whose played_at is no     *)
(* timestamp: one user logs in and fetches                                 *)
(***************************************************************************)
FaultyItems == {i \in Items : i.name = "n1"}

FaultyPages == SeqsUpTo(FaultyItems, MaxPage)

NextFaulty ==
  \/ LoginRequest({"alice"})
  \/ FetchRequest(FaultyPages)

SpecFaulty == Init /\ [][NextFaulty]_vars

(***************************************************************************)
(* The recommendation pipeline: one user logs in, may lose the token row,  *)
(* fetches single play events and generates recommendations from lists of  *)
(* up to MaxRecs tracks                                                    *)
(***************************************************************************)
SinglePlays == {<<i>> : i \in {v \in ValidItems : v.played_at = "T1Z"}}

TopTracks == {<<>>, <<"t1">>}

RecommendedLists == SeqsUpTo([id : TrackIds, name : {"n2"}], MaxRecs)

NextRec ==
  \/ LoginRequest({"alice"})
  \/ AdminDeleteToken
  \/ FetchRequest(SinglePlays)
  \/ GenerateRequest(TopTracks, RecommendedLists)

SpecRec == Init /\ [][NextRec]_vars

(***************************************************************************)
(* The feature targets: one user logs in and generates from top-track      *)
(* lists of up to MaxTop tracks, with every mix of null and non-null       *)
(* audio-feature answers for the seeds                                     *)
(***************************************************************************)
MaxTop == 6          \* tracks in a top-tracks answer

TopChart == <<"s1", "s2", "s3", "s4", "s5", "s6", "s7", "s8">>

TopLists == {SubSeq(TopChart, 1, n) : n \in 0..MaxTop}

ShortLists == {<<>>, <<[id |-> "t1", name |-> "n1"]>>}

NextTargets ==
  \/ LoginRequest({"alice"})
  \/ GenerateRequest(TopLists, ShortLists)

SpecTargets == Init /\ [][NextTargets]_vars

(***************************************************************************)
(* generate_recommendations(request), one database statement at a time:    *)
(* the requests of Requests are handled concurrently, each statement       *)
(* committing on its own (autocommit)                                      *)
(***************************************************************************)
MaxRaceLen == 2      \* tracks in a recommendation response of a concurrent call

RaceLists == SeqsUpTo([id : TrackIds, name : {"n1"}], MaxRaceLen)

GenerateResponse(req) ==
  [Response("generate", req.user, "page", 200, "error")
     EXCEPT !.recommended = req.list, !.replaced = TRUE]

\* the request arrives; the client is built from a fresh token and the API
\* answers with the recommended tracks in list
GenBegin(p) ==
  \E uid \in sessions, list \in RaceLists :
    /\ running[p].pc = "idle"
    /\ \E row \in TokensOf(tokens, uid) : ~Expired(row, now)
    /\ running' = [running EXCEPT ![p] =
                     [NotRunning EXCEPT !.op = "generate", !.pc = "delete",
                                        !.user = uid, !.list = list]]
    /\ resp' = NoRequest
    /\ UNCHANGED <<users, tokens, profiles, sessions, now, tracks, history, recs>>

\* Recommendation.objects.filter(user=request.user).delete()
GenDelete(p) ==
  /\ running[p].pc = "delete"
  /\ recs' = RecDelete(recs, running[p].user)
  /\ running' = [running EXCEPT ![p].pc = "insert", ![p].k = 1]
  /\ resp' = NoRequest
  /\ UNCHANGED <<users, tokens, profiles, sessions, now, tracks, history>>

\* one iteration of the loop; an insert that raises ends the request with
\* the error page
GenInsert(p) ==
  LET req == running[p]
      st == StoreRecommendation([tracks |-> tracks, recs |-> recs, raised |-> FALSE],
                                req.user, now, req.list[req.k])
  IN
  /\ req.pc = "insert"
  /\ req.k <= Len(req.list)
  /\ tracks' = st.tracks
  /\ recs' = st.recs
  /\ IF st.raised
     THEN /\ running' = [running EXCEPT ![p].pc = "failed"]
          /\ resp' = GenerateResponse(req)
     ELSE /\ running' = [running EXCEPT ![p].k = req.k + 1]
          /\ resp' = NoRequest
  /\ UNCHANGED <<users, tokens, profiles, sessions, now, history>>

\* return redirect('recommender:recommendations')
GenRedirect(p) ==
  /\ running[p].pc = "insert"
  /\ running[p].k > Len(running[p].list)
  /\ running' = [running EXCEPT ![p].pc = "done"]
  /\ resp' = [GenerateResponse(running[p]) EXCEPT
                !.kind = "redirect", !.status = 302, !.body = "recommendations"]
  /\ UNCHANGED <<users, tokens, profiles, sessions, now, tracks, history, recs>>

NextRace ==
  \/ LoginRequest({"alice"})
  \/ Tick
  \/ \E p \in Requests : GenBegin(p)
  \/ \E p \in Requests : GenDelete(p)
  \/ \E p \in Requests : GenInsert(p)
  \/ \E p \in Requests : GenRedirect(p)

SpecRace == Init /\ [][NextRace]_vars

(***************************************************************************)
(* get_user_spotify_client(user), one statement at a time: the requests of *)
(* Requests ask for a client concurrently                                  *)
(***************************************************************************)
\* token_info.save() that keeps a row another request has stored since
TokenSaveUnlessChanged(tk, read, row) ==
  IF TokensOf(tk, row.user) = {read} THEN (tk \ {read}) \cup {row} ELSE tk

\* token_info.save(): every field of the instance is written to the user's
\* row
TokenSave(tk, read, row) == (tk \ TokensOf(tk, row.user)) \cup {row}

\* token_info = SpotifyToken.objects.get(user=user), and the expiry test
ClientRead(p) ==
  \E uid \in sessions :
    /\ running[p].pc = "idle"
    /\ IF TokensOf(tokens, uid) = {}
       THEN /\ running' = [running EXCEPT ![p] =
                             [NotRunning EXCEPT !.op = "client", !.pc = "done",
                                                !.user = uid, !.at = now]]
            /\ resp' = Response("client", uid, "none", 0, None)
       ELSE \E row \in TokensOf(tokens, uid) :
              /\ running' = [running EXCEPT ![p] =
                               [NotRunning EXCEPT
                                  !.op = "client", !.user = uid, !.read = row,
                                  !.at = now, !.row = row,
                                  !.pc = IF Expired(row, now) THEN "refresh"
                                         ELSE "return"]]
              /\ resp' = NoRequest
    /\ UNCHANGED <<users, tokens, profiles, sessions, now, tracks, history, recs>>

\* sp_oauth.refresh_access_token(token_info.refresh_token) and the
\* assignments to the instance; an exchange that raises ends the request
ClientRefresh(p) ==
  /\ running[p].pc = "refresh"
  /\ \/ \E rf \in RefreshGrants :
          /\ running' = [running EXCEPT
                           ![p].row = RefreshedRow(running[p].row, now, rf),
                           ![p].grant = rf, ![p].pc = "save"]
          /\ resp' = NoRequest
     \/ /\ running' = [running EXCEPT ![p].pc = "failed"]
        /\ resp' = [Response("client", running[p].user, "exception", 500, None)
                      EXCEPT !.calls = <<"refresh_access_token">>]
  /\ UNCHANGED <<users, tokens, profiles, sessions, now, tracks, history, recs>>

ClientSave(p) ==
  /\ running[p].pc = "save"
  /\ tokens' = TokenSave(tokens, running[p].read, running[p].row)
  /\ running' = [running EXCEPT ![p].pc = "return"]
  /\ resp' = NoRequest
  /\ UNCHANGED <<users, profiles, sessions, now, tracks, history, recs>>

\* return spotipy.Spotify(auth=token_info.access_token)
ClientReturn(p) ==
  /\ running[p].pc = "return"
  /\ running' = [running EXCEPT ![p].pc = "done"]
  /\ resp' = [Response("client", running[p].user, "none", 0, None) EXCEPT
                !.client = running[p].row.access_token,
                !.exchange = running[p].grant,
                !.calls = IF running[p].grant = NoExchange THEN <<>>
                          ELSE <<"refresh_access_token">>]
  /\ UNCHANGED <<users, tokens, profiles, sessions, now, tracks, history, recs>>

NextRefresh ==
  \/ LoginRequest({"alice"})
  \/ Tick
  \/ \E p \in Requests : ClientRead(p)
  \/ \E p \in Requests : ClientRefresh(p)
  \/ \E p \in Requests : ClientSave(p)
  \/ \E p \in Requests : ClientReturn(p)

SpecRefresh == Init /\ [][NextRefresh]_vars

(***************************************************************************)
(* recommendations_view(request)                                           *)
(***************************************************************************)
\* Recommendation.Meta.ordering = ['-score', '-created_at']: a may come
\* before b
RecOrderingOldestFirst(a, b) ==
  a.score > b.score \/ (a.score = b.score /\ a.created_at <= b.created_at)

RecOrdering(a, b) ==
  a.score > b.score \/ (a.score = b.score /\ a.created_at >= b.created_at)

\* the listings of a set of rows: every row once
Listings(rows) ==
  {q \in [1..Cardinality(rows) -> rows] : \A r \in rows : \E i \in DOMAIN q : q[i] = r}

\* Recommendation.objects.filter(user=...): the listings the database may
\* return under the default ordering (rows that tie come in any order)
RecQuery(rc, uid) ==
  {q \in Listings(RecsOf(rc, uid)) :
     \A i, j \in DOMAIN q : i < j => RecOrdering(q[i], q[j])}

RecommendationsView ==
  \E uid \in sessions : \E q \in RecQuery(recs, uid) :
    /\ resp' = [Response("recommendations", uid, "page", 200, "recommendations")
                  EXCEPT !.rows = q]
    /\ UNCHANGED <<users, tokens, profiles, sessions, now, tracks, history, recs, running>>

(***************************************************************************)
(* The read view over every Recommendation table two logged-in users can   *)
(* have: rows from generate (score 0.8) and rows added or rescored through *)
(* the admin site (RecommendationAdmin), created at any time so far        *)
(***************************************************************************)
ViewTrackIds == {"t1", "t2", "t3"}
Scores == {DefaultScore, DefaultScore + 1}

NoRow == [present |-> FALSE, score |-> 0, created_at |-> 0]

RowChoices ==
  {NoRow} \cup [present : {TRUE}, score : Scores, created_at : 0..MaxTime]

\* the table holding, for each (user, track), the row chosen by f if any
RecTable(f) ==
  {[user |-> k[1], track |-> k[2], score |-> f[k].score,
    created_at |-> f[k].created_at] : k \in {x \in DOMAIN f : f[x].present}}

InitView ==
  /\ users = {[id |-> 1, username |-> "alice"], [id |-> 2, username |-> "bob"]}
  /\ tokens = {[user |-> u, access_token |-> FirstGrant.access_token,
                refresh_token |-> FirstGrant.refresh_token,
                expires_at |-> FirstGrant.expires_in,
                token_type |-> "Bearer"] : u \in {1, 2}}
  /\ profiles = {[user |-> 1, spotify_id |-> "alice", display_name |-> "Al B"],
                 [user |-> 2, spotify_id |-> "bob", display_name |-> "Al B"]}
  /\ sessions = {1, 2}
  /\ now = MaxTime
  /\ tracks = {[spotify_id |-> t, name |-> "n1"] : t \in ViewTrackIds}
  /\ history = EmptyBag
  /\ \E f \in [{1, 2} \X ViewTrackIds -> RowChoices] : recs = RecTable(f)
  /\ resp = NoRequest
  /\ running = NoneRunning

NextView == RecommendationsView

SpecView == InitView /\ [][NextView]_vars

(***************************************************************************)
(* listening_history_view(request)                                         *)
(***************************************************************************)
HistoryLimit == 100   \* [:100]

HistoryOf(hist, uid) == {r \in BagToSet(hist) : r.user = uid}

\* order_by('-played_at'): row a is listed before row b
PlayedEarlierFirst(a, b) == a.played_at < b.played_at

PlayedLaterFirst(a, b) == a.played_at > b.played_at

\* the orders in which the database may return rows that order_by leaves
\* tied: for each played_at shared by several rows, a ranking of their tracks
TiedTimes(rows) ==
  {r.played_at : r \in {x \in rows : \E o \in rows \ {x} : o.played_at = x.played_at}}

TrackRankings ==
  {f \in [TrackIds -> 1..Cardinality(TrackIds)] : \A a, b \in TrackIds : a # b => f[a] # f[b]}

TieBreaks(rows) == [TiedTimes(rows) -> TrackRankings]

\* the place of row r in the ordered result
Position(r, rows, tb) ==
  1 + Cardinality({o \in rows \ {r} :
        \/ PlayedLaterFirst(o, r)
        \/ /\ o.played_at = r.played_at
           /\ tb[r.played_at][o.track] < tb[r.played_at][r.track]})

\* the rows at the places 1..n
RowsAt(place, n) == [i \in 1..n |-> CHOOSE r \in DOMAIN place : place[r] = i]

\* the first k rows of the ordered result
FirstRows(rows, k, tb) ==
  RowsAt([r \in rows |-> Position(r, rows, tb)],
         IF Cardinality(rows) < k THEN Cardinality(rows) ELSE k)

\* ListeningHistory.objects.filter(user=...).order_by('-played_at')[:100]
HistoryQuery(hist, uid) ==
  {FirstRows(HistoryOf(hist, uid), HistoryLimit, tb) :
     tb \in TieBreaks(HistoryOf(hist, uid))}

ListeningHistoryView ==
  \E uid \in sessions : \E q \in HistoryQuery(history, uid) :
    /\ resp' = [Response("history", uid, "page", 200, "listening_history")
                  EXCEPT !.rows = q]
    /\ UNCHANGED <<users, tokens, profiles, sessions, now, tracks, history, recs, running>>

(***************************************************************************)
(* The history view over short and long histories: the first user has     *)
(* played one track at each of the times 1..n, n a few or about            *)
(* HistoryLimit, and may have played a second track at one of the earliest *)
(* times; the second user may have a play that is newer than all of them   *)
(***************************************************************************)
MaxPlays == 101       \* plays of one track in a user's history

PlayCounts == (0..3) \cup ((HistoryLimit - 2)..MaxPlays)

ExtraPlayTimes == 0..3    \* 0: the second track was not played

LongHistory(n, extra, other) ==
  {HistoryRow(1, "t1", at) : at \in 1..n}
    \cup (IF extra = 0 THEN {} ELSE {HistoryRow(1, "t2", extra)})
    \cup (IF other THEN {HistoryRow(2, "t1", n + 1)} ELSE {})

InitHistory ==
  /\ users = {[id |-> 1, username |-> "alice"], [id |-> 2, username |-> "bob"]}
  /\ tokens = {}
  /\ profiles = {[user |-> 1, spotify_id |-> "alice", display_name |-> "Al B"],
                 [user |-> 2, spotify_id |-> "bob", display_name |-> "Al B"]}
  /\ sessions = {1, 2}
  /\ now = MaxTime
  /\ tracks = {[spotify_id |-> t, name |-> "n1"] : t \in TrackIds}
  /\ \E n \in PlayCounts, extra \in ExtraPlayTimes, other \in BOOLEAN :
       history = SetToBag(LongHistory(n, extra, other))
  /\ recs = {}
  /\ resp = NoRequest
  /\ running = NoneRunning

NextHistory == ListeningHistoryView

SpecHistory == InitHistory /\ [][NextHistory]_vars

(***************************************************************************)
(* Properties of the token lifecycle                                       *)
(***************************************************************************)
CallbackSucceeded(r) == r.op = "callback" /\ r.kind = "redirect"

\* C2: after any sequence of successful callbacks there is exactly one
\* LocalUser per external id seen (the ids of the stored profiles), its
\* username is that id; the first callback for an id creates the LocalUser
\* and every later one reuses it.
C2_OneLocalUserPerExternalId ==
  /\ [](\A e \in ExternalIds : Cardinality(UsersNamed(users, e)) <= 1)
  /\ [](\A p \in profiles :
          \E u \in users : UsersNamed(users, p.spotify_id) = {u} /\ u.id = p.user)
  /\ [][CallbackSucceeded(resp') =>
          LET e == resp'.body IN
          /\ Cardinality(UsersNamed(users', e)) = 1
          /\ \A u \in UsersNamed(users', e) : u.id = resp'.user /\ u.id \in sessions'
          /\ IF UsersNamed(users, e) # {}
             THEN users' = users
             ELSE users' = users \cup UsersNamed(users', e)]_vars

\* a successful callback for the first user while a second user exists:
\* the first user's row was found, not created
C2_Witness ==
  /\ CallbackSucceeded(resp)
  /\ resp.user = 1
  /\ Cardinality(users) = 2

ClientReturned(r) == r.op \in {"fetch", "generate"} /\ r.client # None

\* C5: whenever a client is returned, it carries the access token stored in
\* the user's TokenRecord at that moment and that record is not expired; if
\* the record was expired when the request came in, a refresh exchange was
\* made and its access token, its expiry and (when rotated) its refresh
\* token are what is stored, the old refresh token being kept otherwise.
C5_ClientNeverStale ==
  [][ClientReturned(resp') =>
       \E old \in TokensOf(tokens, resp'.user), new \in TokensOf(tokens', resp'.user) :
         /\ TokensOf(tokens', resp'.user) = {new}
         /\ resp'.client = new.access_token
         /\ new.expires_at > now'
         /\ old.expires_at <= now =>
              /\ resp'.calls[1] = "refresh_access_token"
              /\ new.access_token = resp'.exchange.access_token
              /\ new.expires_at = now + resp'.exchange.expires_in
              /\ new.refresh_token =
                   IF resp'.exchange.refresh_token = "absent"
                   THEN old.refresh_token ELSE resp'.exchange.refresh_token
              /\ new.token_type = old.token_type]_vars

\* a client returned after a refresh that did not rotate the refresh token
C5_Witness ==
  /\ ClientReturned(resp)
  /\ Len(resp.calls) > 0 /\ resp.calls[1] = "refresh_access_token"
  /\ resp.exchange.refresh_token = "absent"
  /\ now > 0

CallbackRefused(r) ==
  /\ r.kind = "page"
  /\ r.body = r.request.error
  /\ r.calls = <<>>

\* C6 as claimed: a callback whose request carries an error parameter
\* returns the error page showing that value, asks the provider nothing and
\* changes no LocalUser, TokenRecord, Profile or session.
C6_AsClaimed ==
  [][(resp'.op = "callback" /\ resp'.request.error # None) =>
       /\ CallbackRefused(resp')
       /\ UNCHANGED <<users, tokens, profiles, sessions>>]_vars

\* C6 amended: the same for a request whose error parameter is not empty.
C6_NonEmptyErrorRefused ==
  [][(resp'.op = "callback" /\ Truthy(resp'.request.error)) =>
       /\ CallbackRefused(resp')
       /\ UNCHANGED <<users, tokens, profiles, sessions>>]_vars

\* an error callback that also carried a code, received after a login
C6_Witness ==
  /\ resp.op = "callback"
  /\ resp.request.error = "access_denied"
  /\ resp.request.code = "c1"
  /\ sessions # {}

Refreshed(r) == \E i \in DOMAIN r.calls : r.calls[i] = "refresh_access_token"

\* C18: a request that asks for a client while the stored expiry is
\* strictly later than the current time makes no refresh exchange, leaves
\* the TokenRecord as it is and gets a client with the stored access token;
\* a refresh exchange is made only for an expiry at or before the current
\* time.
C18_FreshTokenUntouched ==
  [][resp'.op \in {"fetch", "generate"} =>
       \A old \in TokensOf(tokens, resp'.user) :
         /\ old.expires_at > now =>
              /\ ~Refreshed(resp')
              /\ tokens' = tokens
              /\ resp'.client = old.access_token
         /\ Refreshed(resp') => old.expires_at <= now]_vars

\* a fetch served with the stored token, some time after the first login
C18_Witness ==
  /\ resp.op = "fetch" /\ resp.status = 200
  /\ resp.calls = <<"current_user_recently_played">>
  /\ now > 0
  /\ \E row \in TokensOf(tokens, resp.user) : row.expires_at > now

(***************************************************************************)
(* Properties of the ingestion pipeline                                    *)
(***************************************************************************)
HistoryUnique == \A r \in BagToSet(history) : CopiesIn(r, history) = 1

\* the handler run for uid on the current tables with a token that needs no
\* refresh and an API that answers with page
FetchNow(uid, page) ==
  FetchOutcome(tokens, tracks, history, uid, now, NoExchange, TRUE, TRUE, page)

\* the same page fetched once more, on the tables the first run left
FetchAgain(uid, page) ==
  LET first == FetchNow(uid, page) IN
  FetchOutcome(first.tokens, first.tracks, first.history, uid, now,
               NoExchange, TRUE, TRUE, page)

\* C3: HistoryEntry rows are unique per (user, track, played-at) in every
\* reachable state, and from every reachable state a page fetched twice in a
\* row for the same user creates no HistoryEntry row the second time and
\* reports history_entries_created = 0.
C3_HistoryUniqueAndIdempotent ==
  /\ HistoryUnique
  /\ \A uid \in sessions, page \in IngestPages :
       FetchNow(uid, page).resp.status = 200 =>
         /\ FetchAgain(uid, page).resp.status = 200
         /\ FetchAgain(uid, page).resp.history_entries_created = 0
         /\ FetchAgain(uid, page).history = FetchNow(uid, page).history

\* a fetch that found every play event of its page stored already
C3_Witness ==
  /\ resp.op = "fetch" /\ resp.status = 200
  /\ resp.history_entries_created = 0
  /\ BagCardinality(history) >= 2
  /\ \E page \in IngestPages :
       /\ Len(page) = 2 /\ page[1] # page[2]
       /\ FetchNow(resp.user, page).history = history

\* C7: a fetch by a logged-in user without a TokenRecord answers 401 with
\* the body "Not authenticated with Spotify", calls no external API and
\* leaves every table as it was.
C7_FetchWithoutToken ==
  [][(resp'.op = "fetch" /\ TokensOf(tokens, resp'.user) = {}) =>
       /\ resp'.kind = "json" /\ resp'.status = 401
       /\ resp'.body = "Not authenticated with Spotify"
       /\ resp'.calls = <<>>
       /\ UNCHANGED <<tracks, history, tokens, users, profiles, recs>>]_vars

\* the 401 answer with tracks and history stored
C7_Witness ==
  /\ resp.op = "fetch" /\ resp.status = 401
  /\ tokens = {}
  /\ tracks # {}
  /\ BagCardinality(history) > 0

\* pages of two play events of two distinct tracks, neither stored
TwoUnseenTracks ==
  {page \in IngestPages :
     /\ Len(page) = 2
     /\ page[1].id # page[2].id
     /\ \A i \in 1..2 : TracksWithId(tracks, page[i].id) = {}}

\* C9: on a successful fetch tracks_created is the number of Track rows the
\* call added and history_entries_created the number of HistoryEntry rows it
\* added, nothing being removed; a page of two distinct unseen tracks gives
\* 2 and 2.
C9_CountsAreRowsAdded ==
  /\ [][(resp'.op = "fetch" /\ resp'.status = 200) =>
          /\ tracks \subseteq tracks'
          /\ history \sqsubseteq history'
          /\ resp'.tracks_created = Cardinality(tracks') - Cardinality(tracks)
          /\ resp'.history_entries_created =
               BagCardinality(history') - BagCardinality(history)]_vars
  /\ [](\A uid \in sessions, page \in TwoUnseenTracks :
          FetchNow(uid, page).resp.status = 200 =>
            /\ FetchNow(uid, page).resp.tracks_created = 2
            /\ FetchNow(uid, page).resp.history_entries_created = 2
            /\ Cardinality(FetchNow(uid, page).tracks) = Cardinality(tracks) + 2)

\* a successful fetch of a page that played one new track twice
C9_Witness ==
  /\ resp.op = "fetch" /\ resp.status = 200
  /\ resp.tracks_created = 1
  /\ resp.history_entries_created = 2
  /\ Cardinality(tracks) = 2

(***************************************************************************)
(* Properties of the recommendation pipeline                               *)
(***************************************************************************)
RecommendedIds(r) == {r.recommended[i].id : i \in DOMAIN r.recommended}

StoredIds(uid) == {r.track : r \in RecsOf(recs, uid)}

\* C1 as claimed: after a generate that reached the store replacement, the
\* tracks of the user's RecommendationEntry rows are exactly the tracks of
\* the API response, whatever the response lists.
C1_AsClaimed ==
  (resp.op = "generate" /\ resp.replaced) =>
    StoredIds(resp.user) = RecommendedIds(resp)

\* C4: a run of either pipeline leaves every stored Track row as it was;
\* the rows it adds are for ids that had no row, one row per id.
C4_FirstWriteWins ==
  [][resp'.op \in {"fetch", "generate"} =>
       /\ tracks \subseteq tracks'
       /\ \A t \in tracks' \ tracks : TracksWithId(tracks, t.spotify_id) = {}
       /\ \A t \in tracks' : TracksWithId(tracks', t.spotify_id) = {t}]_vars

\* a generate whose response named a stored track under other metadata
C4_Witness ==
  /\ resp.op = "generate" /\ resp.replaced
  /\ \E i \in DOMAIN resp.recommended : \E t \in tracks :
       /\ t.spotify_id = resp.recommended[i].id
       /\ t.name # resp.recommended[i].name

\* C8 as claimed: a generate request ends in a redirect to the
\* recommendations view or in a rendered error page.
C8_AsClaimed ==
  resp.op = "generate" =>
    \/ resp.kind = "redirect" /\ resp.body = "recommendations"
    \/ resp.kind = "page"

(***************************************************************************)
(* Properties of the read views                                            *)
(***************************************************************************)
\* C10: the recommendations view lists all and only the requesting user's
\* rows, each once, by score descending and, among equal scores, by
\* creation time descending.
C10_ListedByScoreThenNewest ==
  resp.op = "recommendations" =>
    /\ {resp.rows[i] : i \in DOMAIN resp.rows} = RecsOf(recs, resp.user)
    /\ Len(resp.rows) = Cardinality(RecsOf(recs, resp.user))
    /\ \A i, j \in DOMAIN resp.rows :
         i < j => \/ resp.rows[i].score > resp.rows[j].score
                  \/ /\ resp.rows[i].score = resp.rows[j].score
                     /\ resp.rows[i].created_at >= resp.rows[j].created_at

\* the listing [0.9, the newer 0.8, the older 0.8] while the other user has
\* rows too
C10_Witness ==
  /\ resp.op = "recommendations" /\ Len(resp.rows) = 3
  /\ resp.rows[1].score = DefaultScore + 1
  /\ resp.rows[2].score = DefaultScore /\ resp.rows[3].score = DefaultScore
  /\ resp.rows[2].created_at > resp.rows[3].created_at
  /\ \E r \in recs : r.user # resp.user

Listed(r) == {r.rows[i] : i \in DOMAIN r.rows}

\* C11: the history view lists only rows of the requesting user, each once,
\* newest first; it lists min(100, n) of the user's n rows and no row left
\* out is newer than a listed one.
C11_Latest100NewestFirst ==
  resp.op = "history" =>
    LET mine == HistoryOf(history, resp.user) IN
    /\ Listed(resp) \subseteq mine
    /\ Cardinality(Listed(resp)) = Len(resp.rows)
    /\ Len(resp.rows) = IF Cardinality(mine) < 100 THEN Cardinality(mine) ELSE 100
    /\ \A i \in DOMAIN resp.rows :
         i < Len(resp.rows) => resp.rows[i].played_at >= resp.rows[i + 1].played_at
    /\ \A o \in mine \ Listed(resp) : \A i \in DOMAIN resp.rows :
         o.played_at <= resp.rows[i].played_at

\* 100 rows listed out of more, one left out that is as old as the last one
\* listed, while the other user has a newer row
C11_Witness ==
  /\ resp.op = "history" /\ Len(resp.rows) = 100
  /\ \E o \in HistoryOf(history, resp.user) \ Listed(resp) :
       o.played_at = resp.rows[100].played_at
  /\ \E r \in BagToSet(history) :
       r.user # resp.user /\ r.played_at > resp.rows[1].played_at

(***************************************************************************)
(* Properties of the feature targets                                       *)
(***************************************************************************)
FeatureNames == {"danceability", "energy", "valence", "tempo"}

TargetsSent(r) ==
  r.op = "generate" /\ \E i \in DOMAIN r.calls : r.calls[i] = "recommendations"

NonNull(feats) == {i \in DOMAIN feats : feats[i].present}

\* C12 as claimed: with at least one non-null lookup, each target sent to
\* the recommendation API is the sum of the feature over the non-null
\* lookups divided by the number of non-null lookups.
C12_AsClaimed ==
  (TargetsSent(resp) /\ NonNull(resp.features) # {}) =>
    \A name \in FeatureNames :
      /\ resp.targets[name].den # 0
      /\ resp.targets[name].num * Cardinality(NonNull(resp.features))
           = SumOver(resp.features, name, 1) * resp.targets[name].den

\* C13 as claimed: a generate with at least one seed whose audio-feature
\* lookups are all null fails at the averaging, with an error page and
\* without requesting recommendations.
C13_AsClaimed ==
  (resp.op = "generate" /\ Len(resp.features) >= 1 /\ NonNull(resp.features) = {}) =>
    /\ ~TargetsSent(resp)
    /\ resp.kind = "page" /\ resp.body = "error"

(***************************************************************************)
(* Properties of failing pipeline runs                                     *)
(***************************************************************************)
\* the pages whose k-th play event is the first one that cannot be stored
FailingAt(k) ==
  {page \in FaultyPages :
     /\ k \in DOMAIN page
     /\ ParseDatetime(page[k].played_at) = {}
     /\ \A i \in 1..(k - 1) : ParseDatetime(page[i].played_at) # {}}

TrackIdsOf(trk) == {t.spotify_id : t \in trk}

\* the HistoryEntry rows of the play events 1..n of a page
PlaysOf(uid, page, n) ==
  UNION {{HistoryRow(uid, page[i].id, at) : at \in ParseDatetime(page[i].played_at)} :
           i \in 1..n}

\* C14: a fetch that raises at the k-th play event of its page answers with
\* a 500 JSON error after a single API call; the Track and HistoryEntry rows
\* of events 1..k-1 and the Track row of event k are stored, every row
\* stored before is kept, and nothing of the events after k is stored.
C14_FailureKeepsCommittedRows ==
  /\ [](\A uid \in sessions : \A k \in 1..MaxPage : \A page \in FailingAt(k) :
          LET out == FetchNow(uid, page) IN
          TokensOf(tokens, uid) # {} =>
            /\ out.resp.kind = "json" /\ out.resp.status = 500
            /\ out.resp.calls = <<"current_user_recently_played">>
            /\ tracks \subseteq out.tracks
            /\ TrackIdsOf(out.tracks) =
                 TrackIdsOf(tracks) \cup {page[i].id : i \in 1..k}
            /\ BagToSet(out.history) = BagToSet(history) \cup PlaysOf(uid, page, k - 1)
            /\ history \sqsubseteq out.history)
  /\ [][(resp'.op = "fetch" /\ resp'.status = 500) =>
          /\ tracks \subseteq tracks'
          /\ history \sqsubseteq history']_vars

\* a failed fetch that left the play of its first event and the track of
\* its second event stored
C14_Witness ==
  /\ resp.op = "fetch" /\ resp.kind = "json" /\ resp.status = 500
  /\ \E page \in FailingAt(2) :
       /\ page[1].id # page[2].id
       /\ TrackIdsOf(tracks) = {page[1].id, page[2].id}
       /\ BagToSet(history) = PlaysOf(resp.user, page, 1)

\* the rows generate stores for the first j tracks of a response
PrefixRows(uid, list, j, t) ==
  {[user |-> uid, track |-> list[i].id, score |-> DefaultScore, created_at |-> t] :
     i \in 1..j}

\* C17: after a generate call that fails, the user's RecommendationEntry
\* rows are either exactly the rows stored before the call (the delete was
\* not reached) or exactly one row per track of a prefix of the response's
\* track list, all of them new (the delete was reached); rows of other
\* users are untouched.
C17_FailureLeavesOldOrPrefix ==
  [][(resp'.op = "generate" /\ resp'.kind # "redirect") =>
       LET u == resp'.user
           list == resp'.recommended
       IN
       /\ recs' \ RecsOf(recs', u) = recs \ RecsOf(recs, u)
       /\ IF resp'.replaced
          THEN \E j \in 0..Len(list) :
                 /\ RecsOf(recs', u) = PrefixRows(u, list, j, now)
                 /\ Cardinality(RecsOf(recs', u)) = j
          ELSE RecsOf(recs', u) = RecsOf(recs, u)]_vars

\* a generate that failed at the third track of its response, leaving the
\* rows of the first two
C17_Witness ==
  /\ resp.op = "generate" /\ resp.kind = "page" /\ resp.replaced
  /\ Len(resp.recommended) = 3
  /\ resp.recommended[1].id # resp.recommended[2].id
  /\ RecsOf(recs, resp.user) = PrefixRows(resp.user, resp.recommended, 2, now)

(***************************************************************************)
(* Properties of concurrent requests                                       *)
(***************************************************************************)
\* request p takes the step that inserts the row of its k-th track
InsertStep(p) ==
  /\ running[p].op = "generate" /\ running[p].pc = "insert"
  /\ running[p].k <= Len(running[p].list)
  /\ running'[p] # running[p]

\* the pair (user, track) of that row is stored already
PairStored(p) ==
  \E r \in recs : /\ r.user = running[p].user
                  /\ r.track = running[p].list[running[p].k].id

\* C15 as claimed: nothing prevents duplicated rows, so an insert of a
\* (user, track) pair that is stored already adds a second row for the pair
\* and the call goes on.
C15_AsClaimed ==
  [][\A p \in Requests : (InsertStep(p) /\ PairStored(p)) =>
       /\ running'[p].pc = "insert"
       /\ Cardinality(recs') = Cardinality(recs) + 1]_vars

\* C15 amended: concurrent generate calls never leave two rows for the same
\* (user, track) pair; an insert of a pair that is stored already raises,
\* stores nothing and ends its call with the error page.  (That rows can be
\* lost is shown by the witness.)
C15_LostButNeverDuplicated ==
  /\ [](\A a, b \in recs : (a.user = b.user /\ a.track = b.track) => a = b)
  /\ [][\A p \in Requests : (InsertStep(p) /\ PairStored(p)) =>
          /\ running'[p].pc = "failed"
          /\ recs' = recs
          /\ resp'.kind = "page" /\ resp'.body = "error"]_vars

\* both calls have finished with a redirect, and a track of the response of
\* the call that finished last is not stored
C15_Witness ==
  /\ \A p \in Requests : running[p].pc = "done"
  /\ resp.op = "generate" /\ resp.kind = "redirect"
  /\ RecommendedIds(resp) \ StoredIds(resp.user) # {}

\* request p takes the step that persists its refreshed credential
SaveStep(p) ==
  running[p].op = "client" /\ running[p].pc = "save" /\ running'[p].pc = "return"

\* request p takes the step that returns its client
ReturnStep(p) ==
  running[p].op = "client" /\ running[p].pc = "return" /\ running'[p].pc = "done"

\* C16: there is never more than one TokenRecord per user; a request that
\* found the record expired returns a client only after its own refresh
\* exchange, whatever another request has stored meanwhile; and when a
\* request persists, the user's record holds that request's access token,
\* expiry and refresh token (its rotated one, else the one it had read),
\* replacing whatever an earlier writer stored.
C16_LastWriterWins ==
  /\ [](\A u \in users : Cardinality(TokensOf(tokens, u.id)) <= 1)
  /\ [][\A p \in Requests : SaveStep(p) =>
          LET req == running[p] IN
          \E new \in tokens' :
            /\ TokensOf(tokens', req.user) = {new}
            /\ new.access_token = req.grant.access_token
            /\ new.expires_at = req.row.expires_at
            /\ new.refresh_token =
                 IF req.grant.refresh_token = "absent"
                 THEN req.read.refresh_token ELSE req.grant.refresh_token
            /\ new.token_type = req.read.token_type]_vars
  /\ [][\A p \in Requests :
          (ReturnStep(p) /\ running[p].read.expires_at <= running[p].at) =>
            /\ running[p].grant # NoExchange
            /\ resp'.calls = <<"refresh_access_token">>
            /\ resp'.client = running[p].grant.access_token]_vars

\* both requests refreshed and returned a client; the first to persist had
\* stored a rotated refresh token, the last one put the old one back
C16_Witness ==
  \E p, q \in Requests :
    /\ p # q
    /\ running[p].pc = "done" /\ running[q].pc = "done"
    /\ running[p].grant # NoExchange /\ running[q].grant # NoExchange
    /\ running[q].grant.refresh_token = "r2"
    /\ running[p].grant.refresh_token = "absent"
    /\ running[p].read.refresh_token = "r1"
    /\ tokens = {running[p].row}
    /\ running[p].row.refresh_token = "r1"

====
